---------------------------- MODULE Spec2Model ----------------------------
(***************************************************************************)
(* Model of the cheve dialect translator: the explanation response parser  *)
(* and the Gemini client (src/lib/services/gemini.ts), the history store   *)
(* client (src/lib/services/firestore.ts), the stores (src/lib/stores) and *)
(* the page's handlers (src/routes/+page.svelte).                          *)
(*                                                                         *)
(* A JavaScript string is a sequence of characters; a character is a       *)
(* short TLA+ string.  Some characters are written by name: "NL" line      *)
(* feed, "TAB" tab, "EN" en-dash, "EM" em-dash, "BUL" bullet, "BT"         *)
(* backtick, "QUOTE" double quote.                                         *)
(***************************************************************************)
EXTENDS Integers, Sequences, FiniteSets, TLC

VARIABLES
    raw,            \* parser: the model's reply handed to the parsing part
    doc,            \* parser: the pieces raw was formatted from, or NULL
    parsed,         \* parser: the Explanation returned, or NULL before the call
    docs,           \* document store: the "translations" collection, oldest first
    saves,          \* document store: the documents added since construction
    pages,          \* store client: the getTranslations calls of one paging run
    apiKey,         \* gemini.ts: whether VITE_GEMINI_API_KEY is set
    gem,            \* gemini.ts: the callGemini invocation under way
    inputText,      \* stores: the input textarea
    outputText,     \* stores: the translation shown
    selectedMode,   \* stores: the dialect mode
    isTranslating,  \* stores: the Translate button is disabled
    historyItems,   \* stores: the history list, as shown
    historyLoading, \* stores: a history load is under way
    historyHasMore, \* stores: the Load more button is shown
    historyCursor,  \* stores: the lastDoc of the latest page, or NULL
    toasts,         \* stores: the toasts shown, oldest first
    timers,         \* stores: the ids of the toasts whose timer is pending
    toastSeq,       \* stores: the toasts added so far (the next toast's id)
    explanation,    \* page: the Explanation shown, or NULL
    explanationVisible,
    explanationLoading,
    tr,             \* page: the handleTranslate run under way
    lh,             \* page: the loadHistory run under way
    ex,             \* page: the fetchExplanation calls, pending or ended
    ops,            \* page: the user operations started so far
    csvFile,        \* page: the content of the file exportCSV downloaded, or NULL
    previewItem,    \* page: the history item previewed, or NULL
    previewVisible,
    restoring,      \* page: the Restore button is disabled
    pauses          \* page: the setTimeout callbacks of the preview still to run,
                    \*       oldest first: "close" (300 ms) or "restore" (180 ms)

NULL == [null |-> TRUE]

parserVars == <<raw, doc, parsed>>
storeVars == <<docs, saves, pages>>
geminiVars == <<apiKey, gem>>
textVars == <<inputText, outputText, selectedMode, isTranslating>>
historyVars == <<historyItems, historyLoading, historyHasMore, historyCursor>>
toastVars == <<toasts, timers, toastSeq>>
explanationVars == <<explanation, explanationVisible, explanationLoading, ex>>
runVars == <<tr, lh, ops>>
previewVars == <<previewItem, previewVisible, restoring, pauses>>
pageVars ==
    <<textVars, historyVars, toastVars, explanationVars, runVars, csvFile, previewVars>>
vars == <<parserVars, storeVars, geminiVars, pageVars>>

\* no run under way
IdleRun == [pc |-> "idle"]

\* the parts of the state a specification does not use stay as constructed
ParserIdle == raw = <<>> /\ doc = NULL /\ parsed = NULL
StoreIdle == docs = <<>> /\ saves = 0 /\ pages = <<>>
GeminiIdle == apiKey = TRUE /\ gem = IdleRun

\* the stores as stores.js creates them and the page's $state as declared
TextIdle ==
    /\ inputText = <<>>
    /\ outputText = <<>>
    /\ selectedMode = "en-paisa"
    /\ isTranslating = FALSE
HistoryIdle ==
    /\ historyItems = <<>>
    /\ historyLoading = FALSE
    /\ historyHasMore = FALSE
    /\ historyCursor = NULL
ToastIdle == toasts = <<>> /\ timers = {} /\ toastSeq = 0
ExplanationIdle ==
    /\ explanation = NULL
    /\ explanationVisible = FALSE
    /\ explanationLoading = FALSE
    /\ ex = {}
RunIdle == tr = IdleRun /\ lh = IdleRun /\ ops = 0
PreviewIdle ==
    /\ previewItem = NULL
    /\ previewVisible = FALSE
    /\ restoring = FALSE
    /\ pauses = <<>>
PageIdle ==
    /\ TextIdle
    /\ HistoryIdle
    /\ ToastIdle
    /\ ExplanationIdle
    /\ RunIdle
    /\ csvFile = NULL
    /\ PreviewIdle

---------------------------------------------------------------------------
(* String primitives used by the TypeScript code                           *)

\* \s of the regular expressions and the white space String.prototype.trim removes
IsSpace(ch) == ch \in {" ", "TAB", "NL"}

\* [EM EN -] : em-dash, en-dash, hyphen
IsDash(ch) == ch \in {"-", "EN", "EM"}

\* \d
IsDigit(ch) == ch \in {"0", "1", "2", "3", "4", "5", "6", "7", "8", "9"}

\* the i flag: the letters of CONTEXT and WORD compare case-insensitively
ToUpper(ch) ==
    CASE ch = "c" -> "C" [] ch = "o" -> "O" [] ch = "n" -> "N" [] ch = "t" -> "T"
      [] ch = "e" -> "E" [] ch = "x" -> "X" [] ch = "w" -> "W" [] ch = "r" -> "R"
      [] ch = "d" -> "D" [] OTHER -> ch

RECURSIVE TrimStart(_)
TrimStart(s) ==
    IF s # <<>> /\ IsSpace(Head(s)) THEN TrimStart(Tail(s)) ELSE s

RECURSIVE TrimEnd(_)
TrimEnd(s) ==
    IF s # <<>> /\ IsSpace(s[Len(s)]) THEN TrimEnd(SubSeq(s, 1, Len(s) - 1)) ELSE s

\* String.prototype.trim
Trim(s) == TrimEnd(TrimStart(s))

\* Array.prototype.join
RECURSIVE Join(_, _)
Join(ss, sep) ==
    IF ss = <<>> THEN <<>>
    ELSE IF Len(ss) = 1 THEN ss[1]
    ELSE ss[1] \o sep \o Join(Tail(ss), sep)

\* String.prototype.split('\n')
RECURSIVE SplitLines(_)
SplitLines(s) ==
    IF \A i \in 1..Len(s) : s[i] # "NL" THEN <<s>>
    ELSE LET i == CHOOSE k \in 1..Len(s) :
                      s[k] = "NL" /\ \A j \in 1..(k - 1) : s[j] # "NL"
         IN  <<SubSeq(s, 1, i - 1)>> \o SplitLines(SubSeq(s, i + 1, Len(s)))

\* Array.prototype.map(l => l.trim())
MapTrim(ss) == [i \in 1..Len(ss) |-> Trim(ss[i])]

\* Array.prototype.filter(Boolean) on strings: the empty string is falsy
NonEmpty(s) == s # <<>>
FilterBoolean(ss) == SelectSeq(ss, NonEmpty)

\* number of characters of s satisfying the dash class: (l.match(/[...]/g) ?? []).length
RECURSIVE CountDashes(_)
CountDashes(s) ==
    IF s = <<>> THEN 0
    ELSE (IF IsDash(Head(s)) THEN 1 ELSE 0) + CountDashes(Tail(s))

---------------------------------------------------------------------------
(* explainTranslation, the parsing part (gemini.ts 143-189)                *)

CONTEXT_KW == <<"C", "O", "N", "T", "E", "X", "T">>
WORD_KW == <<"W", "O", "R", "D">>
Colloquial == <<"c", "o", "l", "l", "o", "q", "u", "i", "a", "l">>

\* the note separator of noteParts.join(' - ')
NoteJoiner == <<" ", "-", " ">>

\* raw.replace(/[*_BT#]/g, '') where BT is the backtick
IsMarkdown(ch) == ch \in {"*", "_", "BT", "#"}
NotMarkdown(ch) == ~IsMarkdown(ch)
StripMarkdown(s) == SelectSeq(s, NotMarkdown)

\* cleaned: strip the markdown characters, split at line feeds, trim, drop empty lines
Cleaned(text) == FilterBoolean(MapTrim(SplitLines(StripMarkdown(text))))

\* s starts with the keyword kw (upper case), compared case-insensitively
StartsWithCI(s, kw) ==
    /\ Len(s) >= Len(kw)
    /\ \A i \in 1..Len(kw) : ToUpper(s[i]) = kw[i]

\* the first index >= i of s that holds no white space (Len(s)+1 when there is none):
\* where a greedy \s* that starts at i stops
RECURSIVE SkipSpaces(_, _)
SkipSpaces(s, i) ==
    IF i <= Len(s) /\ IsSpace(s[i]) THEN SkipSpaces(s, i + 1) ELSE i

\* /^CONTEXT\s*:/i : the index of the colon the pattern ends at, 0 when it does not match
ContextPrefixEnd(l) ==
    IF StartsWithCI(l, CONTEXT_KW)
    THEN LET j == SkipSpaces(l, Len(CONTEXT_KW) + 1)
         IN  IF j <= Len(l) /\ l[j] = ":" THEN j ELSE 0
    ELSE 0

IsContextLine(l) == ContextPrefixEnd(l) > 0
NotContextLine(l) == ~IsContextLine(l)

\* /^WORD\d\s*:/i : the index of the colon the pattern ends at, 0 when it does not match
WordPrefixEnd(l) ==
    IF StartsWithCI(l, WORD_KW) /\ Len(l) > Len(WORD_KW) /\ IsDigit(l[Len(WORD_KW) + 1])
    THEN LET j == SkipSpaces(l, Len(WORD_KW) + 2)
         IN  IF j <= Len(l) /\ l[j] = ":" THEN j ELSE 0
    ELSE 0

IsWordLine(l) == WordPrefixEnd(l) > 0

\* contextLine.replace(/^CONTEXT\s*:\s*/i, '').trim()
ContextBody(l) ==
    LET e == ContextPrefixEnd(l)
    IN  Trim(IF e > 0 THEN SubSeq(l, SkipSpaces(l, e + 1), Len(l)) ELSE l)

\* the index of the first ")" of s after index i, 0 when there is none
FirstClose(s, i) ==
    IF \E j \in (i + 1)..Len(s) : s[j] = ")"
    THEN CHOOSE j \in (i + 1)..Len(s) :
             s[j] = ")" /\ \A k \in (i + 1)..(j - 1) : s[k] # ")"
    ELSE 0

\* /\(([^)]+)\)\s*$/ matches s starting at index i
ToneMatchesAt(s, i) ==
    /\ s[i] = "("
    /\ LET j == FirstClose(s, i)
       IN  /\ j > i + 1
           /\ SkipSpaces(s, j + 1) = Len(s) + 1

\* the index the leftmost match of /\(([^)]+)\)\s*$/ starts at, 0 when there is none
ToneMatchStart(s) ==
    IF \E i \in 1..Len(s) : ToneMatchesAt(s, i)
    THEN CHOOSE i \in 1..Len(s) :
             ToneMatchesAt(s, i) /\ \A k \in 1..(i - 1) : ~ToneMatchesAt(s, k)
    ELSE 0

\* toneMatch ? toneMatch[1].trim() : 'colloquial'
ToneOf(body) ==
    LET i == ToneMatchStart(body)
    IN  IF i > 0 THEN Trim(SubSeq(body, i + 1, FirstClose(body, i) - 1)) ELSE Colloquial

\* mutant: the tone group is left in the context
ContextOf_KeepsTone(body) == Trim(body)

\* contextBody.replace(/\([^)]+\)\s*$/, '').trim()
ContextOf(body) ==
    LET i == ToneMatchStart(body)
    IN  Trim(IF i > 0 THEN SubSeq(body, 1, i - 1) ELSE body)

\* the end of the label prefix /^(WORD\d\s*:|[\d]+\.|[-*BUL])\s*/i of a line (the
\* alternatives are tried in this order), 0 when the line has none
RECURSIVE DigitRunEnd(_, _)
DigitRunEnd(s, i) ==
    IF i <= Len(s) /\ IsDigit(s[i]) THEN DigitRunEnd(s, i + 1) ELSE i - 1

LabelEnd(l) ==
    IF WordPrefixEnd(l) > 0 THEN WordPrefixEnd(l)
    ELSE LET k == DigitRunEnd(l, 1)
         IN  IF k >= 1 /\ k < Len(l) /\ l[k + 1] = "." THEN k + 1
             ELSE IF l # <<>> /\ l[1] \in {"-", "*", "BUL"} THEN 1
             ELSE 0

\* line.replace(/^(WORD\d\s*:|[\d]+\.|[-*BUL])\s*/i, '').trim()
StripLabel(l) ==
    LET e == LabelEnd(l)
    IN  Trim(IF e > 0 THEN SubSeq(l, SkipSpaces(l, e + 1), Len(l)) ELSE l)

\* body.split(/\s*[EM EN -]\s*/): each match starts at the white space before a dash
\* and ends after the white space behind it
RECURSIVE SplitSeparator(_)
SplitSeparator(s) ==
    IF \A i \in 1..Len(s) : ~IsDash(s[i]) THEN <<s>>
    ELSE LET k == CHOOSE i \in 1..Len(s) :
                      IsDash(s[i]) /\ \A j \in 1..(i - 1) : ~IsDash(s[j])
         IN  <<TrimEnd(SubSeq(s, 1, k - 1))>>
                 \o SplitSeparator(SubSeq(s, SkipSpaces(s, k + 1), Len(s)))

\* mutant: a line needs a note segment to count
parseWordLine_NeedsNote(line) ==
    LET parts == FilterBoolean(MapTrim(SplitSeparator(StripLabel(line))))
    IN  IF Len(parts) < 3 THEN NULL
        ELSE [word |-> parts[1], meaning |-> parts[2],
              note |-> Trim(Join(SubSeq(parts, 3, Len(parts)), NoteJoiner))]

\* parseWordLine: NULL, or the annotation of the line
parseWordLine(line) ==
    LET body  == StripLabel(line)
        parts == FilterBoolean(MapTrim(SplitSeparator(body)))
    IN  IF Len(parts) < 2 THEN NULL
        ELSE LET note == Trim(Join(SubSeq(parts, 3, Len(parts)), NoteJoiner))
             IN  [word |-> parts[1], meaning |-> parts[2],
                  note |-> IF note # <<>> THEN note ELSE parts[2]]

\* the fallback scan: not a CONTEXT line, and at least two dash characters
IsExtraLine(l) == NotContextLine(l) /\ CountDashes(l) >= 2

\* wordLines: the labeled lines, supplemented by the fallback scan when fewer than two
WordLines(cleaned) ==
    LET labeled == SelectSeq(cleaned, IsWordLine)
    IN  IF Len(labeled) < 2
        THEN LET all == labeled \o SelectSeq(cleaned, IsExtraLine)
             IN  SubSeq(all, 1, IF Len(all) < 2 THEN Len(all) ELSE 2)
        ELSE labeled

\* .filter(a => a !== null && !!a.word && !!a.meaning)
IsAnnotation(a) == a # NULL /\ a.word # <<>> /\ a.meaning # <<>>

Annotations(lines) ==
    SelectSeq([i \in 1..Len(lines) |-> parseWordLine(lines[i])], IsAnnotation)

\* mutant: no fallback to the first line
ContextLine_NoFallback(cleaned) ==
    LET found == SelectSeq(cleaned, IsContextLine)
    IN  IF found # <<>> THEN found[1] ELSE <<>>

\* cleaned.find(l => /^CONTEXT\s*:/i.test(l)) ?? cleaned[0] ?? ''
ContextLine(cleaned) ==
    LET found == SelectSeq(cleaned, IsContextLine)
    IN  IF found # <<>> THEN found[1]
        ELSE IF cleaned # <<>> THEN cleaned[1]
        ELSE <<>>

\* the Explanation explainTranslation returns for the reply text
ParseExplanation(text) ==
    LET cleaned     == Cleaned(text)
        contextBody == ContextBody(ContextLine(cleaned))
    IN  [context     |-> ContextOf(contextBody),
         tone        |-> ToneOf(contextBody),
         annotations |-> Annotations(WordLines(cleaned))]


---------------------------------------------------------------------------
(* Replies the parser is run on                                            *)

\* the longest reply, in lines, among the free-form replies
MaxLines == 4

\* lines a reply may hold: labeled and unlabeled, upper and lower case, with the
\* three dash characters, markdown noise, bullets, numbering and blank lines
ReplyLines ==
    { CONTEXT_KW \o <<":", " ", "a", "b", " ", "(", "x", ",", " ", "y", ")">>,
      <<"c", "o", "n", "t", "e", "x", "t", " ", ":", " ", "a", "-", "b">>,
      WORD_KW \o <<"1", ":", " ", "a", " ", "-", " ", "b", " ", "-", " ", "c">>,
      WORD_KW \o <<"2", ":", " ", "d", " ", "EN", " ", "e", " ", "EM", " ", "f",
                   " ", "-", " ", "g">>,
      <<"w", "o", "r", "d", "3", ":", " ", "a", " ", "-", " ", "b">>,
      <<"*", "*", "a", "-", "b", "*", "*", " ", "-", " ", "c", "_", "d", " ", "-",
        " ", "e">>,
      <<"-", " ", "a", " ", "-", " ", "b">>,
      <<"a", " ", "-", " ", "b">>,
      <<"a", "b", " ", "(", "x", ")">>,
      WORD_KW \o <<"1", ":", " ", "-", " ", "b", " ", "-">>,
      <<" ", " ", "#", "#", " ", " ">>,
      <<"1", ".", " ", "a", " ", "EN", " ", "b", " ", "EN", " ", "c">> }

\* the free-form replies: up to MaxLines lines joined by line feeds, trimmed as
\* callGemini returns them
FreeReplies ==
    { Trim(Join(ls, <<"NL">>)) :
        ls \in UNION { [1..n -> ReplyLines] : n \in 0..MaxLines } }

\* the pieces of a reply in the format the prompt documents
DocBodies == { <<"a", "b">>, <<"A", " ", "b", ",", " ", "c", ".">>,
               <<"a", " ", "(", "b", ")", " ", "c">> }
DocTones  == { <<"x">>, <<"w", "a", "r", "m", ",", " ", "s", "l", "y">> }
DocSegs   == { <<"a">>, <<"b", " ", "c">>, <<"Q", "d", ".">> }
DocPieces ==
    [body : DocBodies, tone : DocTones,
     word1 : [1..3 -> DocSegs], word2 : [1..3 -> DocSegs]]

\* "CONTEXT: body (tone)", "WORD1: a - b - c", "WORD2: d - e - f" on three lines
FormatReply(d) ==
    Join(<< CONTEXT_KW \o <<":", " ">> \o d.body \o <<" ", "(">> \o d.tone \o <<")">>,
            WORD_KW \o <<"1", ":", " ">> \o Join(d.word1, NoteJoiner),
            WORD_KW \o <<"2", ":", " ">> \o Join(d.word2, NoteJoiner) >>,
         <<"NL">>)

ParserInit ==
    /\ \/ raw \in FreeReplies /\ doc = NULL
       \/ \E d \in DocPieces : raw = FormatReply(d) /\ doc = d
    /\ parsed = NULL
    /\ StoreIdle
    /\ GeminiIdle
    /\ PageIdle

\* explainTranslation from "const cleaned" on, for the reply raw
Explain ==
    /\ parsed = NULL
    /\ parsed' = ParseExplanation(raw)
    /\ UNCHANGED <<raw, doc, storeVars, geminiVars, pageVars>>

ParserNext == Explain

SpecParser == ParserInit /\ [][ParserNext]_vars


---------------------------------------------------------------------------
(* Properties of the response parser, checked under SpecParser             *)

IsStr(s) == s \in Seq(STRING)

\* the cleaned line the context falls back to when no line is a CONTEXT line
FirstCleaned(text) ==
    IF Cleaned(text) = <<>> THEN <<>> ELSE Cleaned(text)[1]

NoContextLine(text) ==
    \A i \in 1..Len(Cleaned(text)) : ~IsContextLine(Cleaned(text)[i])

\* the segments a word line splits into, label removed
Segments(l) == FilterBoolean(MapTrim(SplitSeparator(StripLabel(l))))

\* the indexes a trailing parenthesized group "( ... )" of l may start at: l ends
\* with ")", and between the "(" and that ")" stands at least one character, none a ")"
GroupStarts(l) ==
    { i \in 1..(Len(l) - 2) :
        /\ l[i] = "("
        /\ l[Len(l)] = ")"
        /\ \A k \in (i + 1)..(Len(l) - 1) : l[k] # ")" }

LeastOf(S) == CHOOSE i \in S : \A j \in S : i <= j

\* C1: for every reply the parser returns an Explanation whose context and tone are
\* strings and whose annotations are at most 2, each with non-empty word and meaning.
C1_StructurallyValid ==
    parsed # NULL =>
        /\ IsStr(parsed.context)
        /\ IsStr(parsed.tone)
        /\ Len(parsed.annotations) <= 2
        /\ \A i \in 1..Len(parsed.annotations) :
               /\ parsed.annotations[i].word # <<>>
               /\ parsed.annotations[i].meaning # <<>>

\* C2: a reply in the documented three-line format (CONTEXT: body (tone), WORD1: a -
\* b - c, WORD2: d - e - f, the pieces plain text without dashes) parses to context =
\* body, tone = the text in the parentheses, and the two annotations (a, b, c) and
\* (d, e, f) in this order.
C2_DocumentedFormat ==
    (doc # NULL /\ parsed # NULL) =>
        parsed = [context |-> doc.body,
                  tone |-> doc.tone,
                  annotations |->
                      << [word |-> doc.word1[1], meaning |-> doc.word1[2],
                          note |-> doc.word1[3]],
                         [word |-> doc.word2[1], meaning |-> doc.word2[2],
                          note |-> doc.word2[3]] >>]

C2_Witness ==
    /\ doc # NULL
    /\ parsed # NULL
    /\ doc.body = <<"a", " ", "(", "b", ")", " ", "c">>
    /\ parsed.tone = <<"w", "a", "r", "m", ",", " ", "s", "l", "y">>
    /\ Len(parsed.annotations) = 2
    /\ parsed.annotations[2].note = <<"b", " ", "c">>

\* C3 as stated: with no CONTEXT line the tone is "colloquial" and the context is the
\* first non-empty cleaned line, whatever that line ends with.
C3_AlwaysColloquial ==
    (parsed # NULL /\ NoContextLine(raw)) =>
        /\ parsed.tone = Colloquial
        /\ parsed.context = FirstCleaned(raw)

\* C3 amended: with no CONTEXT line the context line is the first non-empty cleaned
\* line (the empty string when there is none).  When it does not end with a
\* parenthesized group, the tone is "colloquial" and the context is that line; when it
\* does, the tone is the trimmed text of the group and the context is the line without it.
C3_FallbackContext ==
    (parsed # NULL /\ NoContextLine(raw)) =>
        LET l == FirstCleaned(raw)
        IN  IF GroupStarts(l) = {}
            THEN parsed.tone = Colloquial /\ parsed.context = l
            ELSE LET i == LeastOf(GroupStarts(l))
                 IN  /\ parsed.tone = Trim(SubSeq(l, i + 1, Len(l) - 1))
                     /\ parsed.context = Trim(SubSeq(l, 1, i - 1))

C3_Witness ==
    /\ parsed # NULL
    /\ NoContextLine(raw)
    /\ Len(Cleaned(raw)) >= 2
    /\ parsed.tone = Colloquial
    /\ parsed.context = <<"a", " ", "-", " ", "b">>

\* C4 as stated: a selected word line with only one separator (a word and a meaning,
\* no note) produces no annotation.
C4_OneSeparatorExcluded ==
    parsed # NULL =>
        \A i \in 1..Len(WordLines(Cleaned(raw))) :
            LET segs == Segments(WordLines(Cleaned(raw))[i])
            IN  Len(segs) = 2 =>
                    \A k \in 1..Len(parsed.annotations) :
                        parsed.annotations[k] #
                            [word |-> segs[1], meaning |-> segs[2], note |-> segs[2]]

\* C4 amended: a WORDn:-labeled line with only one separator produces an annotation
\* whose note is the meaning; only an unlabeled line with fewer than two dash
\* characters is never selected, so a reply of such lines alone has no annotation and
\* every annotation comes from a labeled line or a line with two dashes or more.
C4_OneSeparatorKept ==
    parsed # NULL =>
        LET cleaned == Cleaned(raw)
            sources == { i \in 1..Len(cleaned) :
                           IsWordLine(cleaned[i]) \/ CountDashes(cleaned[i]) >= 2 }
        IN  /\ \A i \in 1..Len(cleaned) :
                   (IsWordLine(cleaned[i]) /\ Len(Segments(cleaned[i])) = 2) =>
                       \E k \in 1..Len(parsed.annotations) :
                           parsed.annotations[k] =
                               [word    |-> Segments(cleaned[i])[1],
                                meaning |-> Segments(cleaned[i])[2],
                                note    |-> Segments(cleaned[i])[2]]
            /\ \A k \in 1..Len(parsed.annotations) :
                   \E i \in sources :
                       /\ Len(Segments(cleaned[i])) >= 2
                       /\ parsed.annotations[k].word = Segments(cleaned[i])[1]
                       /\ parsed.annotations[k].meaning = Segments(cleaned[i])[2]

C4_Witness ==
    /\ parsed # NULL
    /\ \E i \in 1..Len(Cleaned(raw)) :
           /\ IsWordLine(Cleaned(raw)[i])
           /\ Len(Segments(Cleaned(raw)[i])) = 2
    /\ \E k \in 1..Len(parsed.annotations) :
           parsed.annotations[k].note = parsed.annotations[k].meaning

\* the position in cleaned of the line the context is read from: the first CONTEXT
\* line, the first line when there is none, 0 for an empty reply
ContextIndex(cleaned) ==
    IF \E i \in 1..Len(cleaned) : IsContextLine(cleaned[i])
    THEN LeastOf({ i \in 1..Len(cleaned) : IsContextLine(cleaned[i]) })
    ELSE IF cleaned # <<>> THEN 1 ELSE 0

\* the lines of wordLines that the fallback scan added after the labeled ones
AddedLines(cleaned) ==
    LET labeled == SelectSeq(cleaned, IsWordLine)
    IN  SubSeq(WordLines(cleaned), Len(labeled) + 1, Len(WordLines(cleaned)))

\* the positions of cleaned that are neither the context line nor a labeled line
FreePositions(cleaned) ==
    { i \in 1..Len(cleaned) : i # ContextIndex(cleaned) /\ ~IsWordLine(cleaned[i]) }

\* C16: with fewer than two WORDn:-labeled lines, the lines the fallback scan adds
\* are lines of the reply at increasing positions, bring the total to at most two,
\* and stand at positions that hold neither the context line (the first line when
\* no line is a CONTEXT line) nor a labeled line.
C16_FallbackDisjoint ==
    (parsed # NULL /\ Len(SelectSeq(Cleaned(raw), IsWordLine)) < 2) =>
        LET cleaned == Cleaned(raw)
            added   == AddedLines(cleaned)
        IN  /\ Len(WordLines(cleaned)) <= 2
            /\ \E at \in [1..Len(added) -> FreePositions(cleaned)] :
                   /\ \A k \in 1..Len(added) : cleaned[at[k]] = added[k]
                   /\ \A j, k \in 1..Len(added) : j < k => at[j] < at[k]

\* a dash of s with white space on both sides
SpacedDashAt(s, i) ==
    /\ IsDash(s[i])
    /\ 1 < i /\ i < Len(s)
    /\ IsSpace(s[i - 1]) /\ IsSpace(s[i + 1])

\* s cut at its dashes that have white space on both sides, and only there
RECURSIVE SplitSpaced(_)
SplitSpaced(s) ==
    IF \A i \in 1..Len(s) : ~SpacedDashAt(s, i) THEN <<s>>
    ELSE LET k == LeastOf({ i \in 1..Len(s) : SpacedDashAt(s, i) })
         IN  <<SubSeq(s, 1, k - 1)>> \o SplitSpaced(SubSeq(s, k + 1, Len(s)))

\* the annotation of a line whose segments are those of SplitSpaced
SpacedAnnotation(line) ==
    LET parts == FilterBoolean(MapTrim(SplitSpaced(StripLabel(line))))
    IN  IF Len(parts) < 2 THEN NULL
        ELSE LET note == Trim(Join(SubSeq(parts, 3, Len(parts)), NoteJoiner))
             IN  [word |-> parts[1], meaning |-> parts[2],
                  note |-> IF note # <<>> THEN note ELSE parts[2]]

\* C17: every selected word line is split only at the dashes that have white space
\* on both sides (a dash inside a hyphenated word starts no segment); the first
\* segment is the word, the second the meaning, the others joined with " - " the
\* note, and an empty note is replaced by the meaning.
C17_SplitAtSpacedDashes ==
    parsed # NULL =>
        LET lines == WordLines(Cleaned(raw))
        IN  parsed.annotations =
                SelectSeq([i \in 1..Len(lines) |-> SpacedAnnotation(lines[i])],
                          IsAnnotation)


---------------------------------------------------------------------------
(* The history store client (firestore.ts)                                 *)

PAGE_SIZE == 10

\* the first n elements of a sequence: Array.prototype.slice(0, n), limit(n)
Take(s, n) == SubSeq(s, 1, IF Len(s) < n THEN Len(s) ELSE n)

\* orderBy('createdAt', 'desc') of a set of documents with distinct creation times
RECURSIVE OrderByCreatedDesc(_)
OrderByCreatedDesc(S) ==
    IF S = {} THEN <<>>
    ELSE LET newest == CHOOSE d \in S : \A e \in S : e.createdAt <= d.createdAt
         IN  <<newest>> \o OrderByCreatedDesc(S \ {newest})

Range(s) == { s[i] : i \in 1..Len(s) }

\* addDoc with serverTimestamp(): the document the store holds after a save; the
\* store assigns the id and the creation time, later than every earlier one
NewDoc(store, userId, input, output, mode) ==
    [id |-> Len(store) + 1, userId |-> userId, inputText |-> input,
     outputText |-> output, mode |-> mode, createdAt |-> Len(store) + 1]

\* mutant: startAt instead of startAfter, the cursor document is returned again
getTranslations_StartAt(store, userId, cursor) ==
    LET matching == { d \in Range(store) : d.userId = userId }
        after    == IF cursor = NULL THEN matching
                    ELSE { d \in matching : d.createdAt <= cursor.createdAt }
        fetched  == Take(OrderByCreatedDesc(after), PAGE_SIZE + 1)
        hasMore  == Len(fetched) > PAGE_SIZE
        pageDocs == IF hasMore THEN Take(fetched, PAGE_SIZE) ELSE fetched
    IN  [translations |-> pageDocs,
         lastDoc |-> IF Len(pageDocs) > 0 THEN pageDocs[Len(pageDocs)] ELSE NULL,
         hasMore |-> hasMore]

\* mutant: the cursor is taken from the fetched documents, the extra one included
getTranslations_LastFetched(store, userId, cursor) ==
    LET matching == { d \in Range(store) : d.userId = userId }
        after    == IF cursor = NULL THEN matching
                    ELSE { d \in matching : d.createdAt < cursor.createdAt }
        fetched  == Take(OrderByCreatedDesc(after), PAGE_SIZE + 1)
        hasMore  == Len(fetched) > PAGE_SIZE
        pageDocs == IF hasMore THEN Take(fetched, PAGE_SIZE) ELSE fetched
    IN  [translations |-> pageDocs,
         lastDoc |-> IF Len(fetched) > 0 THEN fetched[Len(fetched)] ELSE NULL,
         hasMore |-> hasMore]

\* getTranslations: where userId ==, orderBy createdAt desc, startAfter(cursor) when
\* a cursor is given, limit(PAGE_SIZE + 1); the extra document only decides hasMore
getTranslations(store, userId, cursor) ==
    LET matching == { d \in Range(store) : d.userId = userId }
        after    == IF cursor = NULL THEN matching
                    ELSE { d \in matching : d.createdAt < cursor.createdAt }
        fetched  == Take(OrderByCreatedDesc(after), PAGE_SIZE + 1)
        hasMore  == Len(fetched) > PAGE_SIZE
        pageDocs == IF hasMore THEN Take(fetched, PAGE_SIZE) ELSE fetched
    IN  [translations |-> pageDocs,
         lastDoc |-> IF Len(pageDocs) > 0 THEN pageDocs[Len(pageDocs)] ELSE NULL,
         hasMore |-> hasMore]

---------------------------------------------------------------------------
(* The store client on its own: saves and one paging run                   *)

\* the documents the store may hold at construction, the saves of one run, and the
\* stride at which a seeded store holds another user's document
MaxDocs == 26
MaxSaves == 2
OtherEvery == 4

UserIds == {"u1", "u2"}
StoreText == <<"h", "i">>

\* a store n saves have built; with every > 0 each every-th save was another user's
RECURSIVE SeedStore(_, _)
SeedStore(n, every) ==
    IF n = 0 THEN <<>>
    ELSE LET store == SeedStore(n - 1, every)
             owner == IF every > 0 /\ n % every = 0 THEN "u2" ELSE "u1"
         IN  Append(store, NewDoc(store, owner, StoreText, StoreText, "en-paisa"))

\* a getTranslations call as the paging run records it: the arguments, the number
\* of documents the store held when it ran, and what it returned
PageCall(userId, cursor) ==
    [userId |-> userId, cursor |-> cursor, at |-> Len(docs),
     result |-> getTranslations(docs, userId, cursor)]

StoreInit ==
    /\ \E n \in 0..MaxDocs : \E every \in {0, OtherEvery} : docs = SeedStore(n, every)
    /\ saves = 0
    /\ pages = <<>>
    /\ ParserIdle
    /\ GeminiIdle
    /\ PageIdle

\* saveTranslation(userId, ...) resolves: one document more
StoreSave(userId) ==
    /\ saves < MaxSaves
    /\ saves' = saves + 1
    /\ docs' = Append(docs, NewDoc(docs, userId, StoreText, StoreText, "en-paisa"))
    /\ UNCHANGED <<pages, parserVars, geminiVars, pageVars>>

\* getTranslations(userId, cursor) with no cursor or with any document as the cursor:
\* the paging run starts
StoreFirstPage(userId, cursor) ==
    /\ pages = <<>>
    /\ pages' = <<PageCall(userId, cursor)>>
    /\ UNCHANGED <<docs, saves, parserVars, geminiVars, pageVars>>

\* getTranslations(userId, lastDoc) with the lastDoc the first call returned
StoreNextPage ==
    /\ Len(pages) = 1
    /\ pages' = Append(pages, PageCall(pages[1].userId, pages[1].result.lastDoc))
    /\ UNCHANGED <<docs, saves, parserVars, geminiVars, pageVars>>

StoreNext ==
    \/ \E u \in UserIds : StoreSave(u)
    \/ \E u \in UserIds : \E c \in {NULL} \cup Range(docs) : StoreFirstPage(u, c)
    \/ StoreNextPage

SpecStore == StoreInit /\ [][StoreNext]_vars


---------------------------------------------------------------------------
(* Properties of getTranslations, checked under SpecStore                  *)

\* the documents of a user among the first n documents of the store
OwnedAt(userId, n) == { docs[i] : i \in { k \in 1..n : docs[k].userId = userId } }

\* the position of document d among the documents S, newest first
RankIn(d, S) == Cardinality({ e \in S : e.createdAt > d.createdAt }) + 1

Min2(a, b) == IF a < b THEN a ELSE b

\* C5: with more than 10 records of the user, getTranslations(userId, null) returns
\* exactly the 10 newest with hasMore = true, and getTranslations(userId, lastDoc) on
\* the unchanged store returns the next 10 (or all that remain): the k-th record of
\* the first page is the user's k-th newest and the k-th of the second page the
\* (10+k)-th newest, so the pages share nothing, descend strictly and skip nothing.
C5_TwoPages ==
    (/\ Len(pages) >= 1
     /\ pages[1].cursor = NULL
     /\ Cardinality(OwnedAt(pages[1].userId, pages[1].at)) > PAGE_SIZE) =>
        LET own   == OwnedAt(pages[1].userId, pages[1].at)
            first == pages[1].result
        IN  /\ first.hasMore = TRUE
            /\ Len(first.translations) = PAGE_SIZE
            /\ \A k \in 1..PAGE_SIZE :
                   /\ first.translations[k] \in own
                   /\ RankIn(first.translations[k], own) = k
            /\ (Len(pages) = 2 /\ pages[2].at = pages[1].at) =>
                   LET second == pages[2].result.translations
                   IN  /\ Len(second) = Min2(PAGE_SIZE, Cardinality(own) - PAGE_SIZE)
                       /\ \A k \in 1..Len(second) :
                              /\ second[k] \in own
                              /\ RankIn(second[k], own) = PAGE_SIZE + k

C5_Witness ==
    /\ Len(pages) = 2
    /\ pages[1].cursor = NULL
    /\ pages[2].at = pages[1].at
    /\ \E i \in 1..pages[1].at : docs[i].userId # pages[1].userId
    /\ Len(pages[2].result.translations) = PAGE_SIZE
    /\ pages[2].result.hasMore

\* C6: whatever the store and the cursor, getTranslations returns at most 10 records;
\* hasMore is true exactly when the store holds a record of the user older than the
\* last returned one; the extra record fetched (the 11th after the cursor) is not in
\* the returned list; and lastDoc is the last returned record, null for an empty list.
C6_PageShape ==
    \A p \in 1..Len(pages) :
        LET call  == pages[p]
            res   == call.result
            own   == OwnedAt(call.userId, call.at)
            after == IF call.cursor = NULL THEN own
                     ELSE { d \in own : d.createdAt < call.cursor.createdAt }
            n     == Len(res.translations)
        IN  /\ n <= PAGE_SIZE
            /\ res.hasMore <=>
                   /\ n > 0
                   /\ \E d \in own : d.createdAt < res.translations[n].createdAt
            /\ \A d \in after :
                   RankIn(d, after) = PAGE_SIZE + 1 =>
                       /\ \A k \in 1..n : res.translations[k] # d
                       /\ res.lastDoc # d
            /\ res.lastDoc = IF n = 0 THEN NULL ELSE res.translations[n]

C6_Witness ==
    /\ Len(pages) >= 1
    /\ pages[1].cursor # NULL
    /\ pages[1].cursor.userId # pages[1].userId
    /\ pages[1].result.hasMore
    /\ pages[1].result.lastDoc = pages[1].result.translations[PAGE_SIZE]


---------------------------------------------------------------------------
(* Toasts (stores: addToast) and the CSV export (+page.svelte: exportCSV)  *)

\* addToast(message, type): the toast is appended under a fresh id and its timer set
AddToast(message, type) ==
    /\ toastSeq' = toastSeq + 1
    /\ toasts' = Append(toasts, [id |-> toastSeq + 1, message |-> message, type |-> type])
    /\ timers' = timers \cup {toastSeq + 1}

\* mutant: the callback empties the list
ToastExpires_Clears(id) ==
    /\ id \in timers
    /\ \A other \in timers : id <= other
    /\ timers' = timers \ {id}
    /\ toasts' = <<>>
    /\ toastSeq' = toastSeq
    /\ UNCHANGED <<textVars, historyVars, explanationVars, runVars, csvFile,
                   previewVars>>
    /\ UNCHANGED <<parserVars, storeVars, geminiVars>>

\* the timer of toast id fires: toasts.update(t => t.filter(toast => toast.id !== id));
\* every timer runs for the same duration, so they fire in the order they were set
ToastExpires(id) ==
    /\ id \in timers
    /\ \A other \in timers : id <= other
    /\ timers' = timers \ {id}
    /\ LET Other(t) == t.id # id IN toasts' = SelectSeq(toasts, Other)
    /\ toastSeq' = toastSeq
    /\ UNCHANGED <<textVars, historyVars, explanationVars, runVars, csvFile,
                   previewVars>>
    /\ UNCHANGED <<parserVars, storeVars, geminiVars>>

\* the decimal digits of a natural number
RECURSIVE Digits(_)
Digits(n) ==
    IF n < 10
    THEN <<(<<"0", "1", "2", "3", "4", "5", "6", "7", "8", "9">>)[n + 1]>>
    ELSE Digits(n \div 10) \o Digits(n % 10)

\* new Date(t.createdAt).toISOString(): digits and the letters T and Z, never a
\* quote, a comma or a line feed
ToISOString(createdAt) == <<"T">> \o Digits(createdAt) \o <<"Z">>

\* mutant: replace('"', '""') without the g flag doubles the first quote only
ReplaceQuotes_FirstOnly(s) ==
    IF \A i \in 1..Len(s) : s[i] # "QUOTE" THEN s
    ELSE LET k == CHOOSE i \in 1..Len(s) :
                      s[i] = "QUOTE" /\ \A j \in 1..(i - 1) : s[j] # "QUOTE"
         IN  SubSeq(s, 1, k) \o <<"QUOTE">> \o SubSeq(s, k + 1, Len(s))

\* s.replace(/"/g, '""')
RECURSIVE ReplaceQuotes(_)
ReplaceQuotes(s) ==
    IF s = <<>> THEN <<>>
    ELSE (IF Head(s) = "QUOTE" THEN <<"QUOTE", "QUOTE">> ELSE <<Head(s)>>)
             \o ReplaceQuotes(Tail(s))

\* `"${text.replace(/"/g, '""')}"`
QuoteField(text) == <<"QUOTE">> \o ReplaceQuotes(text) \o <<"QUOTE">>

CsvHeader ==
    << <<"D", "a", "t", "e">>, <<"M", "o", "d", "e">>,
       <<"I", "n", "p", "u", "t">>, <<"O", "u", "t", "p", "u", "t">> >>

\* the cells of the row of one history item; the mode is one of the closed tags
CsvRow(t) ==
    << ToISOString(t.createdAt), <<t.mode>>,
       QuoteField(t.inputText), QuoteField(t.outputText) >>

\* [header, ...rows].map(r => r.join(',')).join('\n')
CsvContent(items) ==
    LET table == <<CsvHeader>> \o [i \in 1..Len(items) |-> CsvRow(items[i])]
    IN  Join([i \in 1..Len(table) |-> Join(table[i], <<",">>)], <<"NL">>)

\* exportCSV: nothing but a toast for an empty history, else the file and a toast
ExportCSV ==
    /\ IF historyItems = <<>>
       THEN /\ AddToast(<<"No history to export.">>, "info")
            /\ UNCHANGED csvFile
       ELSE /\ csvFile' = [download |-> "cheve-translations.csv",
                            blob |-> CsvContent(historyItems)]
            /\ AddToast(<<"CSV exported!">>, "success")
    /\ ops' = ops + 1
    /\ UNCHANGED <<textVars, historyVars, explanationVars, tr, lh, previewVars>>
    /\ UNCHANGED <<parserVars, storeVars, geminiVars>>

---------------------------------------------------------------------------
(* The export on its own: a history list, then exports                     *)

\* the history items of an exported list, and the exports of one run
MaxItems == 2
MaxExports == 2

\* texts with quotes, a comma and a line feed
CsvTexts ==
    { <<"h", "i">>, <<"QUOTE", "x", "QUOTE">>, <<"a", ",", "b">>, <<"x", "NL", "y">> }

\* a history list of n items as getTranslations returns it, newest first
CsvHistories(n) ==
    { [i \in 1..n |->
          [id |-> n + 1 - i, userId |-> "u1", inputText |-> f[i][1],
           outputText |-> f[i][2], mode |-> "en-paisa", createdAt |-> n + 1 - i]] :
      f \in [1..n -> CsvTexts \X CsvTexts] }

CsvInit ==
    /\ TextIdle
    /\ \E n \in 0..MaxItems : historyItems \in CsvHistories(n)
    /\ historyLoading = FALSE
    /\ historyHasMore = FALSE
    /\ historyCursor = NULL
    /\ ToastIdle
    /\ ExplanationIdle
    /\ RunIdle
    /\ csvFile = NULL
    /\ PreviewIdle
    /\ ParserIdle
    /\ StoreIdle
    /\ GeminiIdle

CsvNext ==
    \/ ops < MaxExports /\ ExportCSV
    \/ \E id \in timers : ToastExpires(id)

SpecCsv == CsvInit /\ [][CsvNext]_vars

---------------------------------------------------------------------------
(* Properties of exportCSV, checked under SpecCsv                          *)

CountOf(ch, s) == Cardinality({ i \in 1..Len(s) : s[i] = ch })

\* the text lines of a content: one more than its line feeds
LineCount(s) == CountOf("NL", s) + 1

\* a CSV reader: a quote opens a quoted field, inside it two quotes stand for one
\* and a single quote closes it; a comma ends a field and a line feed a record
RECURSIVE CsvRead(_, _, _, _, _, _)
CsvRead(s, i, quoted, field, record, records) ==
    IF i > Len(s) THEN Append(records, Append(record, field))
    ELSE IF quoted
    THEN IF s[i] = "QUOTE"
         THEN IF i < Len(s) /\ s[i + 1] = "QUOTE"
              THEN CsvRead(s, i + 2, TRUE, Append(field, "QUOTE"), record, records)
              ELSE CsvRead(s, i + 1, FALSE, field, record, records)
         ELSE CsvRead(s, i + 1, TRUE, Append(field, s[i]), record, records)
    ELSE IF s[i] = "QUOTE" THEN CsvRead(s, i + 1, TRUE, field, record, records)
    ELSE IF s[i] = "," THEN CsvRead(s, i + 1, FALSE, <<>>, Append(record, field), records)
    ELSE IF s[i] = "NL"
    THEN CsvRead(s, i + 1, FALSE, <<>>, <<>>, Append(records, Append(record, field)))
    ELSE CsvRead(s, i + 1, FALSE, Append(field, s[i]), record, records)

\* the occurrences of a character inside the texts of a history list
RECURSIVE EmbeddedIn(_, _)
EmbeddedIn(ch, items) ==
    IF items = <<>> THEN 0
    ELSE CountOf(ch, Head(items).inputText) + CountOf(ch, Head(items).outputText)
             + EmbeddedIn(ch, Tail(items))

\* exportCSV has run at least once
Exported == ops > 0

\* C7 as stated: for a history list of N records the export produces content of
\* exactly N+1 lines in which every double quote of a text is doubled.
C7_LinesAndQuotes ==
    Exported =>
        /\ csvFile # NULL
        /\ LineCount(csvFile.blob) = Len(historyItems) + 1
        /\ CountOf("QUOTE", csvFile.blob) =
               4 * Len(historyItems) + 2 * EmbeddedIn("QUOTE", historyItems)

\* C7 amended: for N >= 1 records the content holds exactly N+1 CSV records, the
\* header and one per history item in order, and every double quote of a text is
\* doubled inside its quoted field, so that a CSV reader gets the texts back; the
\* content is N+1 text lines plus one line per line feed embedded in a text, N+1
\* lines when no text holds one.  For N = 0 nothing is exported.
C7_RecordsAndQuotes ==
    Exported =>
        IF historyItems = <<>> THEN csvFile = NULL
        ELSE /\ csvFile # NULL
             /\ CsvRead(csvFile.blob, 1, FALSE, <<>>, <<>>, <<>>) =
                    <<CsvHeader>> \o
                    [i \in 1..Len(historyItems) |->
                        << ToISOString(historyItems[i].createdAt),
                           <<historyItems[i].mode>>,
                           historyItems[i].inputText,
                           historyItems[i].outputText >>]
             /\ LineCount(csvFile.blob) =
                    Len(historyItems) + 1 + EmbeddedIn("NL", historyItems)

C7_Witness ==
    /\ Exported
    /\ csvFile # NULL
    /\ Len(historyItems) = 2
    /\ historyItems[1].inputText = <<"QUOTE", "x", "QUOTE">>
    /\ historyItems[2].outputText = <<"a", ",", "b">>
    /\ LineCount(csvFile.blob) = 3


---------------------------------------------------------------------------
(* The model client (gemini.ts: callGemini)                                *)

\* how an invocation ends: an Error thrown with a message, or a value returned
Throw(message) == [kind |-> "throw", value |-> message]
Return(value) == [kind |-> "return", value |-> value]

\* an optional string of a JSON body: NULL when the path is absent
Str(s) == [str |-> s]

MsgNoKey == <<"VITE_GEMINI_API_KEY is not set in environment variables.">>
MsgEmpty == <<"Gemini returned an empty response.">>
MsgStatus(status) == <<"Gemini API error: ">> \o Digits(status)

\* what fetch and response.json() reject with: raised by the platform, not by callGemini
ReasonFetch == <<"TypeError: Failed to fetch">>
ReasonJson == <<"SyntaxError: Unexpected token">>

\* fetch rejects (no response), or resolves with a response; response.ok is
\* status in 200..299; the body is NULL when it is not JSON, else its two paths
\* err?.error?.message and data?.candidates?.[0]?.content?.parts?.[0]?.text
FetchRejected == [rejects |-> TRUE, reason |-> ReasonFetch]
Response(status, body) ==
    [rejects |-> FALSE, ok |-> (status >= 200 /\ status <= 299),
     status |-> status, body |-> body]

\* err?.error?.message ?? `Gemini API error: ${response.status}`, where err is
\* {} when the body is not JSON; ?? keeps an empty message
UpstreamMessage(resp) ==
    IF resp.body # NULL /\ resp.body.message # NULL
    THEN resp.body.message.str
    ELSE MsgStatus(resp.status)

\* callGemini from the response on: lines 113-120
Settle(resp) ==
    IF ~resp.ok THEN Throw(UpstreamMessage(resp))
    ELSE IF resp.body = NULL THEN Throw(ReasonJson)
    ELSE LET result == resp.body.text
         IN  IF result = NULL \/ result.str = <<>>
             THEN Throw(MsgEmpty)
             ELSE Return(Trim(result.str))

\* callGemini as one function of the key and of what fetch settles with
callGemini(key, fetched) ==
    IF ~key THEN Throw(MsgNoKey)
    ELSE IF fetched.rejects THEN Throw(fetched.reason)
    ELSE Settle(fetched)

\* an invocation of callGemini step by step; requests counts the fetch calls of
\* the invocation
Invocation(pc, calls, requests, fetched, outcome) ==
    [pc |-> pc, calls |-> calls, requests |-> requests,
     fetched |-> fetched, outcome |-> outcome]

\* the invocations of one run
MaxCalls == 2

\* statuses, upstream messages and candidate texts of the responses
Statuses == {200, 429, 500}
UpstreamMessages == {NULL, Str(<<>>), Str(<<"quota exceeded">>)}
CandidateTexts ==
    {NULL, Str(<<>>), Str(<<" ">>), Str(<<"s", "i">>), Str(<<" ", "s", "i", "NL">>)}
Bodies == {NULL} \cup [message : UpstreamMessages, text : CandidateTexts]
Responses == { Response(status, body) : status \in Statuses, body \in Bodies }

\* mutant: the key is not checked and the request is always sent
GeminiCall_NoKeyCheck ==
    /\ gem.pc \in {"idle", "done"}
    /\ gem.calls < MaxCalls
    /\ gem' = Invocation("fetching", gem.calls + 1, 1, NULL, NULL)
    /\ UNCHANGED <<apiKey, parserVars, storeVars, pageVars>>

\* lines 99-110: the key check, then the one fetch
GeminiCall ==
    /\ gem.pc \in {"idle", "done"}
    /\ gem.calls < MaxCalls
    /\ gem' = IF ~apiKey
              THEN Invocation("done", gem.calls + 1, 0, NULL, Throw(MsgNoKey))
              ELSE Invocation("fetching", gem.calls + 1, 1, NULL, NULL)
    /\ UNCHANGED <<apiKey, parserVars, storeVars, pageVars>>

\* await fetch(...) rejects: the rejection leaves callGemini as it is
GeminiFetchRejects ==
    /\ gem.pc = "fetching"
    /\ gem' = [gem EXCEPT !.pc = "done", !.fetched = FetchRejected,
                          !.outcome = Throw(FetchRejected.reason)]
    /\ UNCHANGED <<apiKey, parserVars, storeVars, pageVars>>

\* await fetch(...) resolves with a response
GeminiFetchResolves(resp) ==
    /\ gem.pc = "fetching"
    /\ gem' = [gem EXCEPT !.pc = "reading", !.fetched = resp]
    /\ UNCHANGED <<apiKey, parserVars, storeVars, pageVars>>

\* await response.json() settles, and callGemini throws or returns
GeminiBodyRead ==
    /\ gem.pc = "reading"
    /\ gem' = [gem EXCEPT !.pc = "done", !.outcome = Settle(gem.fetched)]
    /\ UNCHANGED <<apiKey, parserVars, storeVars, pageVars>>

GeminiInit ==
    /\ apiKey \in BOOLEAN
    /\ gem = Invocation("idle", 0, 0, NULL, NULL)
    /\ ParserIdle
    /\ StoreIdle
    /\ PageIdle

GeminiNext ==
    \/ GeminiCall
    \/ GeminiFetchRejects
    \/ \E resp \in Responses : GeminiFetchResolves(resp)
    \/ GeminiBodyRead

SpecGemini == GeminiInit /\ [][GeminiNext]_vars

---------------------------------------------------------------------------
(* Properties of callGemini, checked under SpecGemini                      *)

\* the invocation has ended
Ended == gem.pc = "done"

\* the response the invocation got, when it got one
GotResponse == gem.fetched # NULL /\ ~gem.fetched.rejects

\* the first candidate's text of a body, NULL when there is none
FirstCandidateText(body) == IF body = NULL THEN NULL ELSE body.text

\* the upstream message of a body, NULL when there is none
UpstreamMessageOf(body) == IF body = NULL THEN NULL ELSE body.message

\* the upstream error: it carries the message when present, otherwise the status
UpstreamError(resp) ==
    IF UpstreamMessageOf(resp.body) # NULL
    THEN Throw(UpstreamMessageOf(resp.body).str)
    ELSE Throw(<<"Gemini API error: ">> \o Digits(resp.status))

\* C8 as stated: each invocation ends in exactly one of four outcomes, decided
\* in this order: no key -> configuration error and no request; response not
\* successful -> upstream error; successful response without first-candidate
\* text -> empty-response error; otherwise the first candidate's text.  At most
\* one request is issued.
C8_FourOutcomes ==
    /\ gem.requests <= 1
    /\ Ended =>
         IF ~apiKey
         THEN gem.requests = 0 /\ gem.outcome = Throw(MsgNoKey)
         ELSE /\ GotResponse
              /\ IF ~gem.fetched.ok
                 THEN gem.outcome = UpstreamError(gem.fetched)
                 ELSE IF FirstCandidateText(gem.fetched.body) = NULL
                 THEN gem.outcome = Throw(MsgEmpty)
                 ELSE gem.outcome = Return(FirstCandidateText(gem.fetched.body).str)

\* C8 amended: each invocation ends in exactly one of six outcomes, decided in
\* this order: no key -> configuration error and no request; the request fails
\* without a response -> that failure; response not successful -> upstream error
\* with the upstream message when present, otherwise the status; successful
\* response whose body is not JSON -> the parse failure; successful response
\* with no or an empty first-candidate text -> empty-response error; otherwise
\* the first candidate's text, trimmed.  At most one request is issued.
C8_SixOutcomes ==
    /\ gem.requests <= 1
    /\ Ended =>
         IF ~apiKey
         THEN gem.requests = 0 /\ gem.outcome = Throw(MsgNoKey)
         ELSE /\ gem.requests = 1
              /\ gem.fetched # NULL
              /\ IF gem.fetched.rejects
                 THEN gem.outcome = Throw(ReasonFetch)
                 ELSE IF ~gem.fetched.ok
                 THEN gem.outcome = UpstreamError(gem.fetched)
                 ELSE IF gem.fetched.body = NULL
                 THEN gem.outcome = Throw(ReasonJson)
                 ELSE IF \/ FirstCandidateText(gem.fetched.body) = NULL
                         \/ FirstCandidateText(gem.fetched.body).str = <<>>
                 THEN gem.outcome = Throw(MsgEmpty)
                 ELSE gem.outcome =
                          Return(Trim(FirstCandidateText(gem.fetched.body).str))

C8_Witness ==
    /\ Ended
    /\ gem.calls = 2
    /\ gem.requests = 1
    /\ GotResponse
    /\ gem.fetched.ok
    /\ gem.outcome = Return(<<"s", "i">>)


---------------------------------------------------------------------------
(* The page (+page.svelte): translate, save, explain, history              *)

\* get(userId): the stable anonymous id of this browser
Uid == "u1"

\* the modes the user switches between, two of the three MODES
TranslationModes == {"en-paisa", "en-boricua"}

\* what the user types into the input box
TypedTexts == { <<" ">>, <<"h", "i", " ">> }

\* what the fetch of a model call settles with
PageFetches ==
    { FetchRejected,
      Response(200, [message |-> NULL, text |-> Str(<<"s", "i", " ">>)]) }

\* what addDoc and getDocs reject with
StoreError == <<"Missing or insufficient permissions.">>

\* the documents the store holds when the page is opened
SeededDocs == {0, 15}

\* the clicks and keystrokes of one run
MaxOps == 4

\* a handleTranslate run: where it is, and its input, mode and result
TranslateRun(pc, input, mode, result) ==
    [pc |-> pc, input |-> input, mode |-> mode, result |-> result]

\* a loadHistory run: where it is, its arguments, what the query returned, and the
\* history state at the call
LoadRun(pc, reset, cursor, result, before) ==
    [pc |-> pc, reset |-> reset, cursor |-> cursor, result |-> result,
     before |-> before]

HistoryState ==
    [items |-> historyItems, cursor |-> historyCursor, hasMore |-> historyHasMore]

\* bind:value on the textarea
TypeInput(text) ==
    /\ ops < MaxOps
    /\ inputText' = text
    /\ ops' = ops + 1
    /\ UNCHANGED <<outputText, selectedMode, isTranslating>>
    /\ UNCHANGED <<historyVars, toastVars, explanationVars, tr, lh, csvFile,
                   previewVars>>
    /\ UNCHANGED <<parserVars, storeVars, geminiVars>>

\* bind:value on the mode selector
SelectMode(mode) ==
    /\ ops < MaxOps
    /\ mode # selectedMode
    /\ selectedMode' = mode
    /\ ops' = ops + 1
    /\ UNCHANGED <<inputText, outputText, isTranslating>>
    /\ UNCHANGED <<historyVars, toastVars, explanationVars, tr, lh, csvFile,
                   previewVars>>
    /\ UNCHANGED <<parserVars, storeVars, geminiVars>>

\* mutant: the Translate button takes clicks while a translation runs
HandleTranslate_Enabled ==
    /\ ops < MaxOps
    /\ IF Trim(inputText) = <<>>
       THEN /\ AddToast(<<"Please enter some text to translate.">>, "info")
            /\ UNCHANGED <<outputText, isTranslating, explanation,
                           explanationVisible, tr>>
       ELSE /\ isTranslating' = TRUE
            /\ outputText' = <<>>
            /\ explanation' = NULL
            /\ explanationVisible' = FALSE
            /\ tr' = TranslateRun("translating", Trim(inputText), selectedMode, <<>>)
            /\ UNCHANGED toastVars
    /\ ops' = ops + 1
    /\ UNCHANGED <<inputText, selectedMode, explanationLoading, ex>>
    /\ UNCHANGED <<historyVars, lh, csvFile, previewVars>>
    /\ UNCHANGED <<parserVars, storeVars, geminiVars>>

\* mutant: a new translation aborts the explanation requests in flight
HandleTranslate_Cancels ==
    /\ ops < MaxOps
    /\ ~isTranslating
    /\ IF Trim(inputText) = <<>>
       THEN /\ AddToast(<<"Please enter some text to translate.">>, "info")
            /\ UNCHANGED <<outputText, isTranslating, explanation,
                           explanationVisible, tr, ex>>
       ELSE /\ isTranslating' = TRUE
            /\ outputText' = <<>>
            /\ explanation' = NULL
            /\ explanationVisible' = FALSE
            /\ tr' = TranslateRun("translating", Trim(inputText), selectedMode, <<>>)
            /\ ex' = ex \ { call \in ex : call.pc = "pending" }
            /\ UNCHANGED toastVars
    /\ ops' = ops + 1
    /\ UNCHANGED <<inputText, selectedMode, explanationLoading>>
    /\ UNCHANGED <<historyVars, lh, csvFile, previewVars>>
    /\ UNCHANGED <<parserVars, storeVars, geminiVars>>

\* handleTranslate up to its first await; the Translate button is disabled while
\* isTranslating
HandleTranslate ==
    /\ ops < MaxOps
    /\ ~isTranslating
    /\ IF Trim(inputText) = <<>>
       THEN /\ AddToast(<<"Please enter some text to translate.">>, "info")
            /\ UNCHANGED <<outputText, isTranslating, explanation,
                           explanationVisible, tr>>
       ELSE /\ isTranslating' = TRUE
            /\ outputText' = <<>>
            /\ explanation' = NULL
            /\ explanationVisible' = FALSE
            /\ tr' = TranslateRun("translating", Trim(inputText), selectedMode, <<>>)
            /\ UNCHANGED toastVars
    /\ ops' = ops + 1
    /\ UNCHANGED <<inputText, selectedMode, explanationLoading, ex>>
    /\ UNCHANGED <<historyVars, lh, csvFile, previewVars>>
    /\ UNCHANGED <<parserVars, storeVars, geminiVars>>

\* the catch and finally blocks of handleTranslate
TranslateFailed(message) ==
    /\ AddToast(<<"Translation failed: ">> \o message, "error")
    /\ outputText' = <<>>
    /\ isTranslating' = FALSE
    /\ tr' = [tr EXCEPT !.pc = "failed"]
    /\ UNCHANGED <<inputText, selectedMode>>
    /\ UNCHANGED <<historyVars, explanationVars, lh, ops, csvFile, previewVars>>
    /\ UNCHANGED <<parserVars, storeVars, geminiVars>>

\* await translateText(input, mode) resolves: the output is shown, the save begins
TranslateResolves(fetched) ==
    /\ tr.pc = "translating"
    /\ callGemini(apiKey, fetched).kind = "return"
    /\ outputText' = callGemini(apiKey, fetched).value
    /\ tr' = [tr EXCEPT !.pc = "saving", !.result = callGemini(apiKey, fetched).value]
    /\ UNCHANGED <<inputText, selectedMode, isTranslating>>
    /\ UNCHANGED <<historyVars, toastVars, explanationVars, lh, ops, csvFile,
                   previewVars>>
    /\ UNCHANGED <<parserVars, storeVars, geminiVars>>

\* await translateText(input, mode) rejects
TranslateRejects(fetched) ==
    /\ tr.pc = "translating"
    /\ callGemini(apiKey, fetched).kind = "throw"
    /\ TranslateFailed(callGemini(apiKey, fetched).value)

\* mutant: the document takes the input box as it is, untrimmed
SaveCommits_Untrimmed ==
    /\ tr.pc = "saving"
    /\ docs' = Append(docs, NewDoc(docs, Uid, inputText, tr.result, tr.mode))
    /\ tr' = [tr EXCEPT !.pc = "committed"]
    /\ UNCHANGED <<saves, pages>>
    /\ UNCHANGED <<textVars, historyVars, toastVars, explanationVars, lh, ops,
                   csvFile, previewVars>>
    /\ UNCHANGED <<parserVars, geminiVars>>

\* addDoc reaches the store: the document is written
SaveCommits ==
    /\ tr.pc = "saving"
    /\ docs' = Append(docs, NewDoc(docs, Uid, tr.input, tr.result, tr.mode))
    /\ tr' = [tr EXCEPT !.pc = "committed"]
    /\ UNCHANGED <<saves, pages>>
    /\ UNCHANGED <<textVars, historyVars, toastVars, explanationVars, lh, ops,
                   csvFile, previewVars>>
    /\ UNCHANGED <<parserVars, geminiVars>>

\* mutant: the explanation is awaited, isTranslating stays true meanwhile
SaveResolves_Blocking ==
    /\ tr.pc = "committed"
    /\ historyItems' = <<docs[Len(docs)]>> \o historyItems
    /\ AddToast(<<"Translation saved!">>, "success")
    /\ explanationLoading' = TRUE
    /\ explanationVisible' = FALSE
    /\ ex' = ex \cup {[id |-> docs[Len(docs)].id, input |-> tr.input,
                       output |-> tr.result, mode |-> tr.mode, pc |-> "pending"]}
    /\ tr' = [tr EXCEPT !.pc = "done"]
    /\ UNCHANGED <<inputText, outputText, selectedMode, isTranslating, explanation>>
    /\ UNCHANGED <<historyLoading, historyHasMore, historyCursor, lh, ops,
                   csvFile, previewVars>>
    /\ UNCHANGED <<parserVars, storeVars, geminiVars>>

\* await saveTranslation(...) resolves: the saved record is prepended, the toast
\* added, fetchExplanation run up to its first await, and the finally block run
SaveResolves ==
    /\ tr.pc = "committed"
    /\ historyItems' = <<docs[Len(docs)]>> \o historyItems
    /\ AddToast(<<"Translation saved!">>, "success")
    /\ explanationLoading' = TRUE
    /\ explanationVisible' = FALSE
    /\ ex' = ex \cup {[id |-> docs[Len(docs)].id, input |-> tr.input,
                       output |-> tr.result, mode |-> tr.mode, pc |-> "pending"]}
    /\ isTranslating' = FALSE
    /\ tr' = [tr EXCEPT !.pc = "done"]
    /\ UNCHANGED <<inputText, outputText, selectedMode, explanation>>
    /\ UNCHANGED <<historyLoading, historyHasMore, historyCursor, lh, ops,
                   csvFile, previewVars>>
    /\ UNCHANGED <<parserVars, storeVars, geminiVars>>

\* mutant: the catch block does not reset the output
SaveRejects_KeepsOutput ==
    /\ tr.pc = "saving"
    /\ AddToast(<<"Translation failed: ">> \o StoreError, "error")
    /\ isTranslating' = FALSE
    /\ tr' = [tr EXCEPT !.pc = "failed"]
    /\ UNCHANGED <<inputText, outputText, selectedMode>>
    /\ UNCHANGED <<historyVars, explanationVars, lh, ops, csvFile, previewVars>>
    /\ UNCHANGED <<parserVars, storeVars, geminiVars>>

\* await saveTranslation(...) rejects: nothing was written
SaveRejects ==
    /\ tr.pc = "saving"
    /\ TranslateFailed(StoreError)

\* the fetchExplanation calls that are at their await
PendingCalls == { call \in ex : call.pc = "pending" }

\* explainTranslation resolves for a pending fetchExplanation call: the parse of
\* the model's text is shown
ExplainResolves(call, fetched) ==
    /\ call \in PendingCalls
    /\ callGemini(apiKey, fetched).kind = "return"
    /\ explanation' = [of |-> call.id,
                       result |-> ParseExplanation(callGemini(apiKey, fetched).value)]
    /\ explanationVisible' = TRUE
    /\ explanationLoading' = FALSE
    /\ ex' = (ex \ {call}) \cup {[call EXCEPT !.pc = "applied"]}
    /\ UNCHANGED <<textVars, historyVars, toastVars, tr, lh, ops, csvFile, previewVars>>
    /\ UNCHANGED <<parserVars, storeVars, geminiVars>>

\* mutant: the catch block reports the failure in a toast
ExplainRejects_Toasts(call, fetched) ==
    /\ call \in PendingCalls
    /\ callGemini(apiKey, fetched).kind = "throw"
    /\ AddToast(<<"Explanation failed: ">> \o callGemini(apiKey, fetched).value, "error")
    /\ explanationLoading' = FALSE
    /\ ex' = (ex \ {call}) \cup {[call EXCEPT !.pc = "failed"]}
    /\ UNCHANGED <<explanation, explanationVisible>>
    /\ UNCHANGED <<textVars, historyVars, tr, lh, ops, csvFile, previewVars>>
    /\ UNCHANGED <<parserVars, storeVars, geminiVars>>

\* explainTranslation rejects: logged only
ExplainRejects(call, fetched) ==
    /\ call \in PendingCalls
    /\ callGemini(apiKey, fetched).kind = "throw"
    /\ explanationLoading' = FALSE
    /\ ex' = (ex \ {call}) \cup {[call EXCEPT !.pc = "failed"]}
    /\ UNCHANGED <<explanation, explanationVisible>>
    /\ UNCHANGED <<textVars, historyVars, toastVars, tr, lh, ops, csvFile, previewVars>>
    /\ UNCHANGED <<parserVars, storeVars, geminiVars>>

\* loadHistory(false) up to its await: the Load more button is shown under a
\* non-empty list when historyHasMore, and disabled while historyLoading
LoadMore ==
    /\ ops < MaxOps
    /\ historyItems # <<>>
    /\ historyHasMore
    /\ ~historyLoading
    /\ historyLoading' = TRUE
    /\ lh' = LoadRun("querying", FALSE, historyCursor, NULL, HistoryState)
    /\ ops' = ops + 1
    /\ UNCHANGED <<historyItems, historyHasMore, historyCursor>>
    /\ UNCHANGED <<textVars, toastVars, explanationVars, tr, csvFile, previewVars>>
    /\ UNCHANGED <<parserVars, storeVars, geminiVars>>

\* getDocs reaches the store: the query is answered from the documents it holds
QueryRuns ==
    /\ lh.pc = "querying"
    /\ lh' = [lh EXCEPT !.pc = "fetched",
                        !.result = getTranslations(docs, Uid, lh.cursor)]
    /\ UNCHANGED <<textVars, historyVars, toastVars, explanationVars, tr, ops,
                   csvFile, previewVars>>
    /\ UNCHANGED <<parserVars, storeVars, geminiVars>>

\* mutant: the cursor of the page is not stored
LoadResolves_KeepsCursor ==
    /\ lh.pc = "fetched"
    /\ historyItems' = IF lh.reset THEN lh.result.translations
                       ELSE historyItems \o lh.result.translations
    /\ historyHasMore' = lh.result.hasMore
    /\ historyLoading' = FALSE
    /\ lh' = [lh EXCEPT !.pc = "done"]
    /\ UNCHANGED historyCursor
    /\ UNCHANGED <<textVars, toastVars, explanationVars, tr, ops, csvFile, previewVars>>
    /\ UNCHANGED <<parserVars, storeVars, geminiVars>>

\* await getTranslations(uid, cursor) resolves
LoadResolves ==
    /\ lh.pc = "fetched"
    /\ historyItems' = IF lh.reset THEN lh.result.translations
                       ELSE historyItems \o lh.result.translations
    /\ historyCursor' = lh.result.lastDoc
    /\ historyHasMore' = lh.result.hasMore
    /\ historyLoading' = FALSE
    /\ lh' = [lh EXCEPT !.pc = "done"]
    /\ UNCHANGED <<textVars, toastVars, explanationVars, tr, ops, csvFile, previewVars>>
    /\ UNCHANGED <<parserVars, storeVars, geminiVars>>

\* mutant: the catch block clears the list
LoadRejects_ClearsList ==
    /\ lh.pc \in {"querying", "fetched"}
    /\ AddToast(<<"Failed to load history: ">> \o StoreError, "error")
    /\ historyItems' = <<>>
    /\ historyLoading' = FALSE
    /\ lh' = [lh EXCEPT !.pc = "failed"]
    /\ UNCHANGED <<historyHasMore, historyCursor>>
    /\ UNCHANGED <<textVars, explanationVars, tr, ops, csvFile, previewVars>>
    /\ UNCHANGED <<parserVars, storeVars, geminiVars>>

\* await getTranslations(uid, cursor) rejects, the answer lost or never given
LoadRejects ==
    /\ lh.pc \in {"querying", "fetched"}
    /\ AddToast(<<"Failed to load history: ">> \o StoreError, "error")
    /\ historyLoading' = FALSE
    /\ lh' = [lh EXCEPT !.pc = "failed"]
    /\ UNCHANGED <<historyItems, historyHasMore, historyCursor>>
    /\ UNCHANGED <<textVars, explanationVars, tr, ops, csvFile, previewVars>>
    /\ UNCHANGED <<parserVars, storeVars, geminiVars>>

\* the rows of the history list the user clicks
MaxRow == 2

\* a sequence without its i-th element
RemoveAt(seq, i) == SubSeq(seq, 1, i - 1) \o SubSeq(seq, i + 1, Len(seq))

\* handleHistoryClick(item) on a row of the list: the previewed item is toggled
\* off through closePreview, another one is shown at once
HandleHistoryClick(i) ==
    /\ ops < MaxOps
    /\ i \in 1..Len(historyItems)
    /\ IF previewItem # NULL /\ previewItem.id = historyItems[i].id
       THEN /\ previewVisible' = FALSE
            /\ pauses' = Append(pauses, "close")
            /\ UNCHANGED previewItem
       ELSE /\ previewItem' = historyItems[i]
            /\ previewVisible' = TRUE
            /\ UNCHANGED pauses
    /\ ops' = ops + 1
    /\ UNCHANGED <<textVars, historyVars, toastVars, explanationVars, tr, lh, csvFile,
                   restoring>>
    /\ UNCHANGED <<parserVars, storeVars, geminiVars>>

\* closePreview() from the close button of the panel, which takes clicks only
\* while the panel is visible
ClosePreview ==
    /\ ops < MaxOps
    /\ previewItem # NULL
    /\ previewVisible
    /\ previewVisible' = FALSE
    /\ pauses' = Append(pauses, "close")
    /\ ops' = ops + 1
    /\ UNCHANGED <<textVars, historyVars, toastVars, explanationVars, tr, lh, csvFile,
                   previewItem, restoring>>
    /\ UNCHANGED <<parserVars, storeVars, geminiVars>>

\* the callback of the oldest closePreview timer runs; a timer set later, or set
\* after a restore began its shorter pause, runs after those
ClosePreviewFires ==
    /\ pauses # <<>>
    /\ Head(pauses) = "close"
    /\ previewItem' = NULL
    /\ pauses' = Tail(pauses)
    /\ UNCHANGED <<textVars, historyVars, toastVars, explanationVars, runVars, csvFile,
                   previewVisible, restoring>>
    /\ UNCHANGED <<parserVars, storeVars, geminiVars>>

\* restoreFromPreview up to its await; the button is disabled while restoring
RestoreFromPreview ==
    /\ ops < MaxOps
    /\ previewItem # NULL
    /\ previewVisible
    /\ ~restoring
    /\ restoring' = TRUE
    /\ pauses' = Append(pauses, "restore")
    /\ ops' = ops + 1
    /\ UNCHANGED <<textVars, historyVars, toastVars, explanationVars, tr, lh, csvFile,
                   previewItem, previewVisible>>
    /\ UNCHANGED <<parserVars, storeVars, geminiVars>>

\* restoreFromPreview after its pause, the previewed item still there: the editor
\* takes the item, the explanation is reset, closePreview() runs, the toast is added
RestoreResumes(i) ==
    /\ i \in 1..Len(pauses)
    /\ pauses[i] = "restore"
    /\ previewItem # NULL
    /\ inputText' = previewItem.inputText
    /\ outputText' = previewItem.outputText
    /\ selectedMode' = previewItem.mode
    /\ explanation' = NULL
    /\ explanationVisible' = FALSE
    /\ restoring' = FALSE
    /\ previewVisible' = FALSE
    /\ pauses' = Append(RemoveAt(pauses, i), "close")
    /\ AddToast(<<"Translation restored to editor">>, "success")
    /\ UNCHANGED <<isTranslating, historyVars, explanationLoading, ex, runVars, csvFile,
                   previewItem>>
    /\ UNCHANGED <<parserVars, storeVars, geminiVars>>

\* restoreFromPreview after its pause, previewItem null: previewItem.inputText
\* throws a TypeError, and the rest of the function does not run
RestoreThrows(i) ==
    /\ i \in 1..Len(pauses)
    /\ pauses[i] = "restore"
    /\ previewItem = NULL
    /\ pauses' = RemoveAt(pauses, i)
    /\ UNCHANGED <<textVars, historyVars, toastVars, explanationVars, runVars, csvFile,
                   previewItem, previewVisible, restoring>>
    /\ UNCHANGED <<parserVars, storeVars, geminiVars>>

\* the page as mounted: onMount has run loadHistory(true) up to its await
Init ==
    /\ \E n \in SeededDocs : docs = SeedStore(n, OtherEvery)
    /\ saves = 0
    /\ pages = <<>>
    /\ apiKey \in BOOLEAN
    /\ gem = IdleRun
    /\ TextIdle
    /\ historyItems = <<>>
    /\ historyLoading = TRUE
    /\ historyHasMore = FALSE
    /\ historyCursor = NULL
    /\ ToastIdle
    /\ ExplanationIdle
    /\ tr = IdleRun
    /\ lh = LoadRun("querying", TRUE, NULL, NULL,
                    [items |-> <<>>, cursor |-> NULL, hasMore |-> FALSE])
    /\ ops = 0
    /\ csvFile = NULL
    /\ PreviewIdle
    /\ ParserIdle

Next ==
    \/ \E text \in TypedTexts : TypeInput(text)
    \/ \E mode \in TranslationModes : SelectMode(mode)
    \/ HandleTranslate
    \/ \E fetched \in PageFetches : TranslateResolves(fetched)
    \/ \E fetched \in PageFetches : TranslateRejects(fetched)
    \/ SaveCommits
    \/ SaveResolves
    \/ SaveRejects
    \/ \E call \in ex : \E fetched \in PageFetches : ExplainResolves(call, fetched)
    \/ \E call \in ex : \E fetched \in PageFetches : ExplainRejects(call, fetched)
    \/ LoadMore
    \/ QueryRuns
    \/ LoadResolves
    \/ LoadRejects
    \/ ops < MaxOps /\ ExportCSV
    \/ \E id \in timers : ToastExpires(id)
    \/ \E i \in 1..MaxRow : HandleHistoryClick(i)
    \/ ClosePreview
    \/ ClosePreviewFires
    \/ RestoreFromPreview
    \/ \E i \in 1..Len(pauses) : RestoreResumes(i)
    \/ \E i \in 1..Len(pauses) : RestoreThrows(i)

Spec == Init /\ [][Next]_vars


---------------------------------------------------------------------------
(* Properties of the page's failure paths, checked under Spec              *)

\* this step appends one toast of the given type and keeps the others
ToastAdded(type) ==
    /\ Len(toasts') = Len(toasts) + 1
    /\ SubSeq(toasts', 1, Len(toasts)) = toasts
    /\ toasts'[Len(toasts')].type = type

\* this step is a step of the handleTranslate run, and the one in which it fails
TranslateStep == tr' # tr
TranslateFails == tr.pc \in {"translating", "saving"} /\ tr'.pc = "failed"

\* C9: when handleTranslate fails, at the model call or at the save, an error
\* toast is added, outputText ends empty, isTranslating is reset to false, and
\* no step of the failing run prepends an item to historyItems or starts an
\* explanation request.
C9_FailureResets ==
    [][ /\ TranslateFails =>
              /\ ToastAdded("error")
              /\ outputText' = <<>>
              /\ isTranslating' = FALSE
        /\ (TranslateStep /\ tr'.pc # "done") =>
              /\ historyItems' = historyItems
              /\ ex' = ex
              /\ explanationLoading' = explanationLoading ]_vars

\* a run failed at the save, after the model had answered
C9_Witness ==
    /\ tr.pc = "failed"
    /\ tr.result = <<"s", "i">>
    /\ outputText = <<>>
    /\ ~isTranslating
    /\ toasts # <<>>
    /\ toasts[Len(toasts)].message = <<"Translation failed: ">> \o StoreError
    /\ ex = {}

\* this step is a step of the loadHistory run, and the one in which it fails
LoadStep == lh' # lh
LoadFails == lh.pc \in {"querying", "fetched"} /\ lh'.pc = "failed"

\* the list is the list before the call, preceded by nothing but records that
\* translations saved since
OnlyPrepended(items, before) ==
    \E k \in 0..Len(items) :
        /\ SubSeq(items, k + 1, Len(items)) = before
        /\ \A i \in 1..k : items[i] \in Range(docs) /\ items[i].userId = Uid

---------------------------------------------------------------------------
(* Properties of fetchExplanation, checked under Spec                      *)

\* this step is the one in which the fetchExplanation call fails
ExplainFails(call) ==
    /\ call.pc = "pending"
    /\ [call EXCEPT !.pc = "failed"] \in ex'

\* C11 as stated: when the explanation request fails no toast is added, the
\* explanation stays null and its panel absent, explanationLoading ends false,
\* and outputText, historyItems and isTranslating are not changed.
C11_StaysNull ==
    [][ \A call \in ex : ExplainFails(call) =>
            /\ toasts' = toasts
            /\ explanation' = NULL
            /\ explanationVisible' = FALSE
            /\ explanationLoading' = FALSE
            /\ outputText' = outputText
            /\ historyItems' = historyItems
            /\ isTranslating' = isTranslating ]_vars

\* C11 amended: when the explanation request fails no toast is added, the
\* explanation and its panel are left as the failure finds them (null and
\* absent, unless the explanation of another call has been applied meanwhile,
\* which then stays shown), explanationLoading ends false, and outputText,
\* historyItems and isTranslating are not changed.
C11_Swallowed ==
    [][ \A call \in ex : ExplainFails(call) =>
            /\ toasts' = toasts
            /\ explanation' = explanation
            /\ explanationVisible' = explanationVisible
            /\ \/ explanation' = NULL /\ explanationVisible' = FALSE
               \/ /\ explanation' # NULL
                  /\ \E other \in ex : /\ other.id # call.id
                                       /\ other.pc = "applied"
                                       /\ other.id = explanation'.of
            /\ explanationLoading' = FALSE
            /\ outputText' = outputText
            /\ historyItems' = historyItems
            /\ isTranslating' = isTranslating ]_vars

\* the explanation of a shown translation has failed
C11_Witness ==
    /\ \E call \in ex : call.pc = "failed" /\ call.output = outputText
    /\ explanation = NULL
    /\ ~explanationVisible
    /\ ~explanationLoading
    /\ ~isTranslating
    /\ historyItems # <<>>


---------------------------------------------------------------------------
(* Properties of the document store under the page, checked under Spec     *)

\* the handleTranslate runs whose model call and save both succeeded: each began
\* a fetchExplanation call, and the run between commit and continuation
SavedRuns ==
    { [id |-> call.id, input |-> call.input, output |-> call.output,
       mode |-> call.mode] : call \in ex }
    \cup (IF tr.pc = "committed"
          THEN {[id |-> docs[Len(docs)].id, input |-> tr.input,
                 output |-> tr.result, mode |-> tr.mode]}
          ELSE {})

\* C12: the store only grows: the documents it held when the page was opened are
\* all there, unmodified, and it holds beyond them exactly one document for each
\* handleTranslate run whose model call and save both succeeded, carrying that
\* run's userId, trimmed input, model output and mode.
C12_StoreOnlyGrows ==
    \E n \in SeededDocs :
        /\ n <= Len(docs)
        /\ SubSeq(docs, 1, n) = SeedStore(n, OtherEvery)
        /\ Cardinality(SavedRuns) = Len(docs) - n
        /\ \A run \in SavedRuns :
               /\ run.id \in (n + 1)..Len(docs)
               /\ docs[run.id].id = run.id
               /\ docs[run.id].userId = Uid
               /\ docs[run.id].inputText = run.input
               /\ docs[run.id].outputText = run.output
               /\ docs[run.id].mode = run.mode
               /\ run.input = Trim(run.input)
               /\ run.input # <<>>
        /\ \A i \in (n + 1)..Len(docs) : \E run \in SavedRuns : run.id = i

\* a run in the other mode has saved, and a history item is previewed
C12_Witness ==
    /\ Len(docs) = 16
    /\ docs[16].inputText = <<"h", "i">>
    /\ docs[16].outputText = <<"s", "i">>
    /\ docs[16].mode = "en-boricua"
    /\ inputText = <<"h", "i", " ">>
    /\ previewItem # NULL
    /\ tr.pc = "done"


---------------------------------------------------------------------------
(* The order of the steps of a handleTranslate run, checked under Spec     *)

\* this step writes to the store; this step begins a fetchExplanation call
Persists == docs' # docs
ExplanationStarts == \E call \in ex' : call \notin ex /\ call.pc = "pending"

\* C13: in a handleTranslate run the model call completes successfully, then
\* the record is persisted, then the saved record is prepended to historyItems,
\* then the explanation is started; isTranslating returns to false in the step
\* that starts the explanation, while that call is still pending; and nothing
\* is persisted without a prior successful model response.
C13_StepOrder ==
    [][ /\ (tr' # tr /\ tr'.pc = "saving") =>
              /\ tr.pc = "translating"
              /\ \E fetched \in PageFetches :
                     callGemini(apiKey, fetched) = Return(tr'.result)
              /\ outputText' = tr'.result
              /\ ~Persists
        /\ Persists =>
              /\ tr.pc = "saving"
              /\ tr'.pc = "committed"
              /\ Len(docs') = Len(docs) + 1
              /\ docs'[Len(docs')].outputText = tr.result
              /\ historyItems' = historyItems
              /\ ~ExplanationStarts
        /\ (tr' # tr /\ tr'.pc = "committed") => Persists
        /\ (historyItems' # historyItems /\ lh' = lh) =>
              /\ tr.pc = "committed"
              /\ historyItems' = <<docs[Len(docs)]>> \o historyItems
              /\ ExplanationStarts
        /\ ExplanationStarts =>
              /\ tr.pc = "committed"
              /\ historyItems' # <<>>
              /\ \A call \in ex' : call \notin ex =>
                     /\ call.id = historyItems'[1].id
                     /\ call.output = docs[call.id].outputText
              /\ isTranslating' = FALSE
              /\ explanationLoading' = TRUE ]_vars

\* the run has ended and the Translate button is enabled again, the
\* explanation of the record it saved and prepended still pending
C13_Witness ==
    /\ tr.pc = "done"
    /\ ~isTranslating
    /\ \E call \in PendingCalls : /\ call.id = Len(docs)
                                  /\ historyItems # <<>>
                                  /\ historyItems[1] = docs[call.id]
                                  /\ call.output = outputText


---------------------------------------------------------------------------
(* Stale explanation responses, checked under Spec                         *)

\* C14: no explanation request in flight is ever cancelled, whatever operation
\* starts meanwhile, and there is no sequencing token: a pending call stays
\* pending until its own response, and a response that arrives is applied
\* whatever translation or restore has started since, so that the explanation
\* shown can belong to a translation other than the one in outputText.
C14_NeverCancelled ==
    [][ \A call \in ex : call.pc = "pending" =>
            \/ call \in ex'
            \/ /\ [call EXCEPT !.pc = "applied"] \in ex'
               /\ explanation' # NULL
               /\ explanation'.of = call.id
               /\ explanationVisible' = TRUE
            \/ /\ [call EXCEPT !.pc = "failed"] \in ex'
               /\ explanation' = explanation ]_vars

\* the explanation shown is that of an earlier translation, applied over the
\* reset of a newer operation: the output box holds another text
C14_Witness ==
    /\ explanation # NULL
    /\ explanationVisible
    /\ ~explanationLoading
    /\ \E call \in ex : /\ call.pc = "applied"
                        /\ call.id = explanation.of
                        /\ call.output # outputText
                        /\ outputText # <<>>


---------------------------------------------------------------------------
(* Toast expiry: the export run with its timers bound to fire              *)

\* a timer that is set fires
ToastTimerFires == \E id \in timers : ToastExpires(id)

SpecToasts == CsvInit /\ [][CsvNext]_vars /\ WF_vars(ToastTimerFires)

\* the ids of the toasts shown, and the toasts shown other than one
ToastIds == { toasts[i].id : i \in 1..Len(toasts) }
ToastsBut(id) == LET Other(t) == t.id # id IN SelectSeq(toasts, Other)

\* C15: every toast added is removed once its timer fires, which it
\* eventually does; the removal takes that toast only and leaves the others in
\* their order; the toasts shown are those whose timer is pending, so that the
\* list is empty after all timers have fired.
C15_ToastsExpire ==
    /\ [](ToastIds = timers /\ Cardinality(timers) = Len(toasts))
    /\ [][ /\ \A id \in timers : id \notin timers' => toasts' = ToastsBut(id)
           /\ timers' = timers => \/ toasts' = toasts
                                  \/ /\ Len(toasts') = Len(toasts) + 1
                                     /\ SubSeq(toasts', 1, Len(toasts)) = toasts ]_vars
    /\ \A id \in 1..MaxExports : (id \in ToastIds) ~> (id \notin ToastIds)
    /\ <>[](toasts = <<>>)

\* the first of two toasts has expired, the second is still shown
C15_Witness ==
    /\ toastSeq = 2
    /\ timers = {2}
    /\ Len(toasts) = 1
    /\ toasts[1].id = 2


---------------------------------------------------------------------------
(* The preview panel, checked under Spec                                   *)

\* a restoreFromPreview call is at its 180 ms pause
RestorePaused == \E i \in 1..Len(pauses) : pauses[i] = "restore"

\* C18: a selection that the user has not closed, toggled or restored (the panel
\* is visible) keeps its item: no step, and so no timer of an earlier
\* closePreview, sets previewItem to null under it; and restoreFromPreview finds
\* previewItem set after its pause, so that restoring is true only while a restore
\* is at its pause and returns to false.
C18_SelectionKept ==
    /\ [][ (previewVisible /\ previewItem # NULL) => previewItem' # NULL ]_vars
    /\ [][ \A i \in 1..Len(pauses) : ~RestoreThrows(i) ]_vars
    /\ [](restoring => RestorePaused)


---------------------------------------------------------------------------
(* The history list under concurrent loads and translations, checked under *)
(* Spec                                                                    *)

\* the record ids of a list of history items
IdsOf(items) == { items[i].id : i \in 1..Len(items) }

\* C19: whatever the interleaving of the initial loadHistory(true), the later
\* loadHistory(false) calls and the handleTranslate completions, no two entries
\* of historyItems have the same record id, and no step, a history load that
\* resolves included, drops a record from the list.
C19_HistoryConsistent ==
    /\ [](\A i, j \in 1..Len(historyItems) :
              historyItems[i].id = historyItems[j].id => i = j)
    /\ [][ IdsOf(historyItems) \subseteq IdsOf(historyItems') ]_vars


---------------------------------------------------------------------------
(* The explanation loading flag under overlapping calls, checked under     *)
(* Spec                                                                    *)

\* C20: explanationLoading is true in every state in which a fetchExplanation
\* call is pending; the completion of the earlier of two overlapping calls
\* does not set it to false while the later one is in flight.
C20_LoadingWhilePending ==
    PendingCalls # {} => explanationLoading


---------------------------------------------------------------------------
(* The paging cursor of the history list, checked under Spec               *)

\* the load under way, or the last one, is a "Load more" (loadHistory(false))
IsLoadMore == lh.pc # "idle" /\ ~lh.reset

\* C21: historyHasMore implies a non-null historyCursor, also after failed
\* loads; a "Load more" is therefore never issued with a null cursor, and the
\* page it fetches holds only records older than its cursor, none of them in
\* historyItems already: the newest page is not appended again.
C21_CursorWithMore ==
    /\ historyHasMore => historyCursor # NULL
    /\ IsLoadMore => lh.cursor # NULL
    /\ (IsLoadMore /\ lh.pc = "fetched") =>
           /\ \A i \in 1..Len(lh.result.translations) :
                  lh.result.translations[i].createdAt < lh.cursor.createdAt
           /\ IdsOf(lh.result.translations) \cap IdsOf(historyItems) = {}

\* a "Load more" issued after a failed one has fetched the second page, with
\* the cursor the first page left
C21_Witness ==
    /\ IsLoadMore
    /\ lh.pc = "fetched"
    /\ lh.cursor = historyCursor
    /\ historyHasMore
    /\ lh.result.translations # <<>>
    /\ \E i \in 1..Len(toasts) :
           toasts[i].message = <<"Failed to load history: ">> \o StoreError


---------------------------------------------------------------------------
(* The Translate button and isTranslating, checked under Spec              *)

\* the handleTranslate run is between its start and the end of its model call
\* and save
TranslateRunning == tr.pc \in {"translating", "saving", "committed"}

\* C22: handleTranslate is entered only when no run is under way (the button is
\* disabled while isTranslating), so two runs never overlap; isTranslating is
\* true exactly while a run is between its start and the completion, success
\* or failure, of its model call and save, and false once the run has ended.
C22_OneRunAtATime ==
    /\ [](isTranslating <=> TranslateRunning)
    /\ [][ HandleTranslate => ~TranslateRunning ]_vars
    /\ [][ (TranslateRunning /\ ~TranslateRunning') => ~isTranslating' ]_vars

\* a second run is at its save after the first one failed
C22_Witness ==
    /\ tr.pc = "saving"
    /\ isTranslating
    /\ \E i \in 1..Len(toasts) : Head(toasts[i].message) = "Translation failed: "
    /\ ops = 3


===========================================================================
